---- MODULE Spec2Model ----
(***************************************************************************)
(* Model of scripts/verify.js: the data verification run over index.json,  *)
(* the per-region files and the search index, with its counters, detail    *)
(* log, report and process exit code.                                      *)
(*                                                                         *)
(* Text is modelled as a sequence of pieces whose concatenation is the     *)
(* JavaScript string: a region code is one piece (no check looks inside    *)
(* one), a fixed message fragment is one piece, and the characters of a    *)
(* URL are one piece each (startsWith looks inside it).                    *)
(* Console output (log, --verbose) is not modelled.                        *)
(***************************************************************************)
EXTENDS Integers, Sequences, FiniteSets, TLC

\* How many codes of the reference list the model keeps (the source has 51).
NumExpected == 2

\* ------------------------------------------------------------ JS values

Undefined == [type |-> "undefined", val |-> <<>>]
Str(s) == [type |-> "string", val |-> s]
Bool(b) == [type |-> "boolean", val |-> IF b THEN <<"true">> ELSE <<"false">>]
Num(n) == [type |-> "number", val |-> <<n>>]

\* ToBoolean of a value of the model (the only number of the model is 5).
Truthy(v) ==
  CASE v.type = "undefined" -> FALSE
    [] v.type = "string" -> v.val # <<>>
    [] v.type = "boolean" -> v.val = <<"true">>
    [] OTHER -> TRUE

\* String(v), as a template literal converts it.
ToText(v) == IF v.type = "undefined" THEN <<"undefined">> ELSE v.val

\* Mutant: equality with 'http' instead of the prefix test.
StartsWithHttpExact(s) == s = <<"h", "t", "t", "p">>

\* String.prototype.startsWith('http') on the characters of a string.
StartsWithHttp(s) == Len(s) >= 4 /\ SubSeq(s, 1, 4) = <<"h", "t", "t", "p">>

RECURSIVE Join(_, _)
\* Array.prototype.join: the elements with the separator between them.
Join(seq, sep) ==
  IF Len(seq) = 0 THEN <<>>
  ELSE IF Len(seq) = 1 THEN <<seq[1]>>
  ELSE <<seq[1], sep>> \o Join(Tail(seq), sep)

RECURSIVE Filter(_, _)
\* Array.prototype.filter(s => !keys.includes(s)): order of seq kept.
Filter(seq, keys) ==
  IF Len(seq) = 0 THEN <<>>
  ELSE (IF \E k \in 1..Len(keys) : keys[k] = seq[1] THEN <<>> ELSE <<seq[1]>>)
       \o Filter(Tail(seq), keys)

\* A small count as a template literal prints it.
NumText(n) == <<"0", "1", "2", "3", "4", "5", "6", "7", "8", "9", "10", "11">>[n + 1]

\* Array.prototype.slice(0, n).
Slice(seq, n) == SubSeq(seq, 1, IF Len(seq) < n THEN Len(seq) ELSE n)

\* ------------------------------------------------------------ constants

ReferenceList ==
  <<"AL", "AK", "AZ", "AR", "CA", "CO", "CT", "DE", "DC", "FL",
    "GA", "HI", "ID", "IL", "IN", "IA", "KS", "KY", "LA", "ME",
    "MD", "MA", "MI", "MN", "MS", "MO", "MT", "NE", "NV", "NH",
    "NJ", "NM", "NY", "NC", "ND", "OH", "OK", "OR", "PA",
    "RI", "SC", "SD", "TN", "TX", "UT", "VT", "VA", "WA",
    "WV", "WI", "WY">>

\* The reference list, cut to its first NumExpected codes.
EXPECTED_STATES == SubSeq(ReferenceList, 1, NumExpected)

\* A key of index.states that is no reference code.
ExtraCodes == {"PR"}

Codes == {EXPECTED_STATES[k] : k \in 1..Len(EXPECTED_STATES)} \cup ExtraCodes

\* ------------------------------------------------------------ results

NoDetails == <<>>

pass(res, check) == [res EXCEPT !.passed = @ + 1]

\* Mutant: a warning counted and logged as an error.
warnAsError(res, check, details) ==
  [res EXCEPT !.errors = @ + 1,
              !.details = Append(@, [type |-> "error", check |-> check,
                                     details |-> details])]

warn(res, check, details) ==
  [res EXCEPT !.warnings = @ + 1,
              !.details = Append(@, [type |-> "warning", check |-> check,
                                     details |-> details])]

\* Mutant: an error logged but not counted.
failUncounted(res, check, details) ==
  [res EXCEPT !.details = Append(@, [type |-> "error", check |-> check,
                                     details |-> details])]

fail(res, check, details) ==
  [res EXCEPT !.errors = @ + 1,
              !.details = Append(@, [type |-> "error", check |-> check,
                                     details |-> details])]

\* ------------------------------------------------------------ index.json

\* The date strings of the model that Date parses.
ValidDateTexts == {<<"2024-01-15">>}

\* isNaN(new Date(v).getTime()) for a truthy v.
DateIsNaN(v) == IF v.type = "number" THEN FALSE ELSE v.val \notin ValidDateTexts

\* typeof v, for the value of index.states.
TypeOf(v) == IF v.type \in {"array", "object"} THEN "object" ELSE v.type

\* Object.keys of the value of index.states.
ObjectKeys(v) == v.keys

\* validateIndexFile: the counters after it, and what it returns ("null",
\* "index") or that it threw (reading a property of null, line 82).
validateIndexFile(res, f) ==
  IF f.kind = "missing"
  THEN [results |-> fail(res, <<"index.json exists">>, <<"File not found">>),
        ret |-> "null"]
  ELSE LET r1 == pass(res, <<"index.json exists">>) IN
  IF f.kind = "unparseable"
  THEN [results |-> fail(r1, <<"index.json is valid JSON">>, <<"e.message">>),
        ret |-> "null"]
  ELSE LET r2 == pass(r1, <<"index.json is valid JSON">>) IN
  IF f.kind = "null"
  THEN [results |-> r2, ret |-> "throw"]
  ELSE LET r3 == IF ~Truthy(f.lastUpdated)
                 THEN fail(r2, <<"index.json has lastUpdated field">>, NoDetails)
                 ELSE IF DateIsNaN(f.lastUpdated)
                      THEN fail(r2, <<"lastUpdated is valid date">>,
                                f.lastUpdated.val)
                      ELSE pass(r2, <<"lastUpdated is valid date">>)
       IN
  IF ~Truthy(f.states) \/ TypeOf(f.states) # "object"
  THEN [results |-> fail(r3, <<"index.json has states object">>, NoDetails),
        ret |-> "null"]
  ELSE LET r4 == pass(r3, <<"index.json has states object">>)
           indexStates == ObjectKeys(f.states)
           missingStates == Filter(EXPECTED_STATES, indexStates)
       IN [results |->
             IF Len(missingStates) > 0
             THEN warn(r4, <<"All expected states present">>,
                       <<"Missing: ">> \o Join(missingStates, ", "))
             ELSE pass(r4, <<"All expected states present">>),
           ret |-> "index"]

\* ------------------------------------------------------------ region files

\* A property read: a field of an object, undefined on any other value.
Prop(data, name) == IF data.kind = "object" THEN data[name] ELSE Undefined

\* issues.slice(0, 5) and issues.length > 5.
MaxIssuesShown == 5

NullRet == [kind |-> "null", issues |-> 0, hasReq |-> Undefined]

\* validateStateFile: the counters after it, what it returns (null or the
\* summary) or that it threw: data.state of a null document (line 130), or
\* startsWith of a statuteUrl that is no string (line 153).
validateStateFile(res, stateCode, file) ==
  IF file.kind = "missing"
  THEN [results |-> fail(res, <<stateCode, ".json exists">>, NoDetails),
        ret |-> NullRet, threw |-> FALSE]
  ELSE IF file.kind = "unparseable"
  THEN [results |-> fail(res, <<stateCode, ".json is valid JSON">>,
                         <<"e.message">>),
        ret |-> NullRet, threw |-> FALSE]
  ELSE IF file.kind = "null"
  THEN [results |-> res, ret |-> NullRet, threw |-> TRUE]
  ELSE
  LET data == file
      state == Prop(data, "state")
      hasReq == Prop(data, "hasPublicWorksRequirement")
      req == Prop(data, "requirement")
      url == req.statuteUrl
      i1 == IF state # Str(<<stateCode>>)
            THEN << <<"State code mismatch: ">> \o ToText(state)
                    \o <<" vs ", stateCode>> >>
            ELSE <<>>
      i2 == IF ~Truthy(Prop(data, "stateName"))
            THEN << <<"Missing stateName">> >> ELSE <<>>
      i3 == IF Prop(data, "agencyType") \notin {Str(<<"SAA">>), Str(<<"OA">>)}
            THEN << <<"Invalid agencyType: ">>
                    \o ToText(Prop(data, "agencyType")) >>
            ELSE <<>>
      i4 == IF hasReq.type # "boolean"
            THEN << <<"Missing or invalid hasPublicWorksRequirement">> >>
            ELSE <<>>
      inReq == Truthy(hasReq) /\ Truthy(req)
      i5 == IF inReq /\ ~Truthy(req.requirementType)
            THEN << <<"Missing requirement.requirementType">> >> ELSE <<>>
      i6 == IF inReq /\ ~Truthy(req.ratioDescription)
            THEN << <<"Missing requirement.ratioDescription">> >> ELSE <<>>
      i7 == IF inReq /\ ~Truthy(req.statute)
            THEN << <<"Missing requirement.statute">> >> ELSE <<>>
      i8 == IF inReq /\ ~Truthy(url)
            THEN << <<"Missing requirement.statuteUrl">> >> ELSE <<>>
      urlThrows == inReq /\ Truthy(url) /\ url.type # "string"
      i9 == IF inReq /\ Truthy(url) /\ url.type = "string"
               /\ ~StartsWithHttp(url.val)
            THEN << <<"Invalid statute URL: ">> \o url.val >> ELSE <<>>
      i10 == IF Truthy(hasReq) /\ ~Truthy(req)
             THEN << <<"hasPublicWorksRequirement is true but no requirement object">> >>
             ELSE <<>>
      i11 == IF ~Truthy(Prop(data, "lastVerified"))
             THEN << <<"Missing lastVerified date">> >> ELSE <<>>
      issues == i1 \o i2 \o i3 \o i4 \o i5 \o i6 \o i7 \o i8 \o i9 \o i10 \o i11
      shown == Slice(issues, MaxIssuesShown)
      WarnAll[k \in 0..MaxIssuesShown] ==
        IF k = 0 THEN res ELSE warn(WarnAll[k - 1], <<stateCode>>, shown[k])
      r1 == WarnAll[Len(shown)]
      r2 == IF Len(issues) > MaxIssuesShown
            THEN warn(r1, <<stateCode>>,
                      <<"...and ", NumText(Len(issues) - MaxIssuesShown),
                        " more issues">>)
            ELSE r1
  IN IF urlThrows
     THEN [results |-> res, ret |-> NullRet, threw |-> TRUE]
     ELSE [results |-> IF Len(issues) > 0 THEN r2
                       ELSE pass(res, <<stateCode, ".json structure is valid">>),
           ret |-> [kind |-> "summary", issues |-> Len(issues),
                    hasReq |-> hasReq],
           threw |-> FALSE]

\* ------------------------------------------------------------ search index

\* validateSearchIndex: the counters after it.
validateSearchIndex(res, f) ==
  IF f = "missing"
  THEN warn(res, <<"search-index.json exists">>,
            <<"Run build-search-index.js to generate">>)
  ELSE LET r1 == pass(res, <<"search-index.json exists">>) IN
  IF f = "unparseable"
  THEN fail(r1, <<"search-index.json is valid JSON">>, <<"e.message">>)
  ELSE IF f # "array"
  THEN fail(r1, <<"search-index.json is an array">>, NoDetails)
  ELSE pass(r1, <<"search-index.json has ", "index.length", " entries">>)

\* ------------------------------------------------------------ report

NoReport ==
  [mode |-> "none", status |-> "", states |-> 0, statesWithRequirements |-> 0,
   statesWithIssues |-> 0, passed |-> 0, warnings |-> 0, errors |-> 0]

\* Mutant: the JSON status without its warnings case.
JsonStatusNoWarnings(res) == IF res.errors > 0 THEN "failed" ELSE "passed"

\* The status of the JSON report (line 220).
JsonStatus(res) ==
  IF res.errors > 0 THEN "failed"
  ELSE IF res.warnings > 0 THEN "passed_with_warnings" ELSE "passed"

\* The verdict line of the text report (lines 247-254).
TextStatus(res) ==
  IF res.errors > 0 THEN "VERIFICATION FAILED"
  ELSE IF res.warnings > 0 THEN "VERIFICATION PASSED WITH WARNINGS"
  ELSE "VERIFICATION PASSED"

\* process.exitCode after the JSON report (line 230).
JsonExitCode(res, code) == IF res.errors > 0 THEN 1 ELSE 0

\* process.exitCode after the text report (lines 247-249).
TextExitCode(res, code) == IF res.errors > 0 THEN 1 ELSE code

\* generateReport: the report printed and process.exitCode after it.
generateReport(res, stats, config, code) ==
  LET withReq == {k \in 1..Len(stats) :
                    stats[k].stats.kind = "summary"
                    /\ Truthy(stats[k].stats.hasReq)}
      withIssues == {k \in 1..Len(stats) :
                       stats[k].stats.kind = "summary"
                       /\ stats[k].stats.issues > 0}
      base == [NoReport EXCEPT !.states = Len(stats),
                               !.statesWithRequirements = Cardinality(withReq),
                               !.statesWithIssues = Cardinality(withIssues),
                               !.passed = res.passed,
                               !.warnings = res.warnings,
                               !.errors = res.errors]
  IN IF config.json
     THEN [report |-> [base EXCEPT !.mode = "json", !.status = JsonStatus(res)],
           exitCode |-> JsonExitCode(res, code)]
     ELSE [report |-> [base EXCEPT !.mode = "text", !.status = TextStatus(res)],
           exitCode |-> TextExitCode(res, code)]

\* ------------------------------------------------------------ state

VARIABLES
  indexFile,        \* data/index.json: absent, unparseable, or its document
  regionFiles,      \* regionFiles[k]: data/<k-th key of index.states>.json
  searchIndexFile,  \* web/public/search-index.json
  CONFIG,           \* [json]: --json
  results,          \* [passed, warnings, errors, details]
  pc,               \* where main is
  index,            \* the keys of index.states once validateIndexFile returned
  stateStats,       \* the entries of stateStats, in insertion order
  exitCode,         \* process.exitCode (0 while unset)
  report,           \* what generateReport printed
  outcome,          \* how the run ended
  calls             \* history: the calls main has made, in order

vars == <<indexFile, regionFiles, searchIndexFile, CONFIG, results, pc, index,
          stateStats, exitCode, report, outcome, calls>>

inputs == <<indexFile, regionFiles, searchIndexFile, CONFIG>>

\* ------------------------------------------------------------ inputs

NoStates == [type |-> "undefined", val |-> <<>>, keys |-> <<>>]

\* Key lists of a states mapping: distinct codes, at most NumExpected of them.
KeySeqs ==
  {s \in UNION {[1..n -> Codes] : n \in 0..NumExpected} :
     \A a, b \in 1..Len(s) : a # b => s[a] # s[b]}

\* The values of index.states: absent, a number, an array, a mapping.
StatesValues ==
  {NoStates, [type |-> "number", val |-> <<"5">>, keys |-> <<>>]}
  \cup {[type |-> "array", val |-> <<>>, keys |-> ks] : ks \in {<<>>, <<"0">>}}
  \cup {[type |-> "object", val |-> <<>>, keys |-> ks] : ks \in KeySeqs}

LastUpdatedValues == {Undefined, Str(<<"soon">>), Str(<<"2024-01-15">>)}

\* index.json: no file, no JSON, the document null, a document that is no
\* object (every property of it reads undefined), or an object.
IndexFiles ==
  [kind : {"missing", "unparseable", "null", "primitive"},
   lastUpdated : {Undefined}, states : {NoStates}]
  \cup [kind : {"object"}, lastUpdated : LastUpdatedValues, states : StatesValues]

NoRequirement ==
  [type |-> "undefined", val |-> <<>>, requirementType |-> Undefined,
   ratioDescription |-> Undefined, statute |-> Undefined,
   statuteUrl |-> Undefined]

HttpsUrl == Str(<<"h", "t", "t", "p", "s", ":">>)

UrlValues ==
  {Undefined, Str(<<>>), HttpsUrl, Str(<<"h", "t", "t", "p">>),
   Str(<<"f", "t", "p", ":">>), Str(<<"h", "t", "t">>), Num("5"), Bool(TRUE)}

Texts == {Undefined, Str(<<"text">>)}

\* The values of data.requirement: absent, a number, an object.
RequirementValues ==
  {NoRequirement, [NoRequirement EXCEPT !.type = "number", !.val = <<"5">>]}
  \cup [type : {"object"}, val : {<<>>}, requirementType : Texts,
        ratioDescription : Texts, statute : Texts, statuteUrl : UrlValues]

GoodRequirement ==
  [type |-> "object", val |-> <<>>, requirementType |-> Str(<<"text">>),
   ratioDescription |-> Str(<<"text">>), statute |-> Str(<<"text">>),
   statuteUrl |-> HttpsUrl]

\* A region file that holds no object: kind says what it holds.
NoObject(kind) ==
  [kind |-> kind, state |-> Undefined, stateName |-> Undefined,
   agencyType |-> Undefined, hasPublicWorksRequirement |-> Undefined,
   requirement |-> NoRequirement, lastVerified |-> Undefined]

\* A region document that passes every check of validateStateFile.
ValidDoc(code) ==
  [kind |-> "object", state |-> Str(<<code>>), stateName |-> Str(<<"text">>),
   agencyType |-> Str(<<"SAA">>), hasPublicWorksRequirement |-> Bool(TRUE),
   requirement |-> GoodRequirement, lastVerified |-> Str(<<"2024-01-15">>)]

\* Every region file of the model for the file of `code`.
AllRegionFiles(code) ==
  {NoObject(k) : k \in {"missing", "unparseable", "null", "primitive"}}
  \cup [kind : {"object"},
        state : {Undefined, Str(<<code>>), Str(<<"ZZ">>)},
        stateName : Texts,
        agencyType : {Undefined, Str(<<"SAA">>), Str(<<"OA">>), Str(<<"XX">>)},
        hasPublicWorksRequirement :
          {Undefined, Bool(TRUE), Bool(FALSE), Str(<<"yes">>)},
        requirement : RequirementValues,
        lastVerified : Texts]

\* The region files a whole run is checked with: no file, no JSON, null, a
\* valid document, one with one issue, one with nine, and one whose
\* statuteUrl is a number.
SampleRegionFiles(code) ==
  {NoObject("missing"), NoObject("unparseable"), NoObject("null"),
   ValidDoc(code),
   [ValidDoc(code) EXCEPT !.agencyType = Str(<<"XX">>)],
   [NoObject("object") EXCEPT
      !.hasPublicWorksRequirement = Str(<<"yes">>),
      !.requirement = [NoRequirement EXCEPT !.type = "object"]],
   [ValidDoc(code) EXCEPT !.requirement.statuteUrl = Num("5")]}

SearchIndexFiles == {"missing", "unparseable", "object", "array"}

NoResults == [passed |-> 0, warnings |-> 0, errors |-> 0, details |-> <<>>]

\* The state as the module is loaded (lines 18-38), before main runs.
Started ==
  /\ results = NoResults
  /\ pc = "validateIndexFile"
  /\ index = <<>>
  /\ stateStats = <<>>
  /\ exitCode = 0
  /\ report = NoReport
  /\ outcome = "running"
  /\ calls = <<>>

Init ==
  /\ indexFile \in IndexFiles
  /\ regionFiles \in
       {fs \in [1..Len(indexFile.states.keys) ->
                  UNION {SampleRegionFiles(c) : c \in Codes \cup {"0"}}] :
          \A k \in 1..Len(fs) :
            fs[k] \in SampleRegionFiles(indexFile.states.keys[k])}
  /\ searchIndexFile \in SearchIndexFiles
  /\ CONFIG \in [json : BOOLEAN]
  /\ Started

\* ------------------------------------------------------------ main

\* main, lines 264-269: validateIndexFile and the abort on its null.
ValidateIndexFile ==
  /\ pc = "validateIndexFile"
  /\ LET r == validateIndexFile(results, indexFile) IN
       /\ results' = r.results
       /\ calls' = Append(calls, <<"validateIndexFile">>)
       /\ pc' = CASE r.ret = "throw" -> "rejected"
                  [] r.ret = "null" -> "done"
                  [] OTHER -> "validateStateFile"
       /\ exitCode' = IF r.ret = "null" THEN 1 ELSE exitCode
       /\ outcome' = IF r.ret = "null" THEN "aborted" ELSE outcome
       /\ index' = IF r.ret = "index" THEN ObjectKeys(indexFile.states) ELSE index
  /\ UNCHANGED <<inputs, stateStats, report>>

\* main, lines 274-276: one turn of the loop over Object.entries(index.states).
ValidateStateFile ==
  /\ pc = "validateStateFile"
  /\ Len(stateStats) < Len(index)
  /\ LET k == Len(stateStats) + 1
         r == validateStateFile(results, index[k], regionFiles[k])
     IN /\ results' = r.results
        /\ calls' = Append(calls, <<"validateStateFile", index[k]>>)
        /\ pc' = IF r.threw THEN "rejected" ELSE pc
        /\ stateStats' = IF r.threw THEN stateStats
                         ELSE Append(stateStats, [code |-> index[k], stats |-> r.ret])
  /\ UNCHANGED <<inputs, index, exitCode, report, outcome>>

\* main, line 278, once the loop is over.
ValidateSearchIndex ==
  /\ pc = "validateStateFile"
  /\ Len(stateStats) = Len(index)
  /\ results' = validateSearchIndex(results, searchIndexFile)
  /\ calls' = Append(calls, <<"validateSearchIndex">>)
  /\ pc' = "generateReport"
  /\ UNCHANGED <<inputs, index, stateStats, exitCode, report, outcome>>

\* main, line 279, and its return.
GenerateReport ==
  /\ pc = "generateReport"
  /\ LET r == generateReport(results, stateStats, CONFIG, exitCode) IN
       /\ report' = r.report
       /\ exitCode' = r.exitCode
  /\ calls' = Append(calls, <<"generateReport">>)
  /\ pc' = "done"
  /\ outcome' = "completed"
  /\ UNCHANGED <<inputs, results, index, stateStats>>

\* main().catch, lines 282-285: the promise of main was rejected.
MainCatch ==
  /\ pc = "rejected"
  /\ exitCode' = 1
  /\ pc' = "done"
  /\ outcome' = "caught"
  /\ UNCHANGED <<inputs, results, index, stateStats, report, calls>>

Next ==
  \/ ValidateIndexFile
  \/ ValidateStateFile
  \/ ValidateSearchIndex
  \/ GenerateReport
  \/ MainCatch

Spec == Init /\ [][Next]_vars

\* A run that validates one region file drawn from every file of the model,
\* under a valid index that lists that one region.
InitRegion ==
  /\ indexFile = [kind |-> "object", lastUpdated |-> Str(<<"2024-01-15">>),
                  states |-> [type |-> "object", val |-> <<>>,
                              keys |-> <<EXPECTED_STATES[1]>>]]
  /\ regionFiles \in {<<f>> : f \in AllRegionFiles(EXPECTED_STATES[1])}
  /\ searchIndexFile = "array"
  /\ CONFIG \in [json : BOOLEAN]
  /\ Started

RegionSpec == InitRegion /\ [][Next]_vars

\* ------------------------------------------------------------ main, as a function

RECURSIVE validateStates(_, _, _, _)
\* The loop of main from the entry after `stats`: the counters and stateStats
\* after it, or that a validateStateFile threw.
validateStates(res, keys, files, stats) ==
  IF Len(stats) = Len(keys)
  THEN [results |-> res, stats |-> stats, threw |-> FALSE]
  ELSE LET k == Len(stats) + 1
           r == validateStateFile(res, keys[k], files[k])
       IN IF r.threw
          THEN [results |-> r.results, stats |-> stats, threw |-> TRUE]
          ELSE validateStates(r.results, keys, files,
                              Append(stats, [code |-> keys[k], stats |-> r.ret]))

\* The whole run on the files of this state under `config`: what it ends with.
main(config) ==
  LET a == validateIndexFile(NoResults, indexFile)
      b == validateStates(a.results, ObjectKeys(indexFile.states), regionFiles, <<>>)
      c == validateSearchIndex(b.results, searchIndexFile)
      d == generateReport(c, b.stats, config, 0)
  IN IF a.ret = "throw"
     THEN [results |-> a.results, report |-> NoReport, exitCode |-> 1,
           outcome |-> "caught"]
     ELSE IF a.ret = "null"
     THEN [results |-> a.results, report |-> NoReport, exitCode |-> 1,
           outcome |-> "aborted"]
     ELSE IF b.threw
     THEN [results |-> b.results, report |-> NoReport, exitCode |-> 1,
           outcome |-> "caught"]
     ELSE [results |-> c, report |-> d.report, exitCode |-> d.exitCode,
           outcome |-> "completed"]

\* ------------------------------------------------------------ vocabulary of the claims

Done == pc = "done"

\* The overall status a report states, whatever its mode.
Verdict(status) ==
  CASE status \in {"failed", "VERIFICATION FAILED"} -> "failed"
    [] status \in {"passed_with_warnings", "VERIFICATION PASSED WITH WARNINGS"}
         -> "passed with warnings"
    [] status \in {"passed", "VERIFICATION PASSED"} -> "passed"
    [] OTHER -> "no report"

\* The detail entries of one type and check.
Entries(type, check) ==
  {k \in 1..Len(results.details) :
     results.details[k].type = type /\ results.details[k].check = check}

OfType(details, type) == {k \in 1..Len(details) : details[k].type = type}

\* The codes validateStateFile was called with, in call order.
Validated == SelectSeq(calls, LAMBDA c : c[1] = "validateStateFile")

Called(fn) == \E k \in 1..Len(calls) : calls[k][1] = fn

\* validateIndexFile returned the index: its three fatal checks passed.
IndexPassed ==
  Called("validateIndexFile") /\ validateIndexFile(NoResults, indexFile).ret = "index"

\* ------------------------------------------------------------ claims

\* The index check that fails on an index file that is missing, unparseable
\* or without a states field.
FatalCheck ==
  CASE indexFile.kind = "missing" -> <<"index.json exists">>
    [] indexFile.kind = "unparseable" -> <<"index.json is valid JSON">>
    [] OTHER -> <<"index.json has states object">>

\* index.json is missing, is unparseable, or parses to a document without a
\* states field.
IndexFatal ==
  \/ indexFile.kind \in {"missing", "unparseable", "null", "primitive"}
  \/ indexFile.kind = "object" /\ indexFile.states.type = "undefined"

\* C1: when the index file is missing, unparseable or lacks its states field,
\* the run ends with exactly one error recorded for the failing index check,
\* no call of validateStateFile, validateSearchIndex or generateReport, and
\* exit status 1.
C1_FatalIndexAborts ==
  (Done /\ IndexFatal) =>
    /\ Cardinality(Entries("error", FatalCheck)) = 1
    /\ calls = << <<"validateIndexFile">> >>
    /\ report = NoReport
    /\ exitCode = 1

\* C2: when the parsed index document has a states field that is no mapping
\* (a primitive or an array), the 'index.json has states object' error is
\* recorded, the run is aborted and no region is validated.
C2_StatesNotMappingAborts ==
  (Done /\ indexFile.kind = "object"
        /\ indexFile.states.type \in {"number", "array"}) =>
    /\ Cardinality(Entries("error", <<"index.json has states object">>)) = 1
    /\ outcome = "aborted"
    /\ Validated = <<>>

\* C3: once the index has passed its fatal checks, whatever the region files
\* hold, every key of index.states is validated, in order, and the search
\* index check and the report follow.
C3_RegionFailureNeverAborts ==
  (Done /\ IndexPassed) =>
    /\ Len(calls) = Len(indexFile.states.keys) + 3
    /\ \A k \in 1..Len(indexFile.states.keys) :
         calls[k + 1] = <<"validateStateFile", indexFile.states.keys[k]>>
    /\ calls[Len(calls) - 1] = <<"validateSearchIndex">>
    /\ calls[Len(calls)] = <<"generateReport">>
    /\ outcome = "completed"

\* C4: at the end of every run the exit status is nonzero exactly when the
\* errors counter is above 0.
C4_ExitStatusIffErrors == Done => (exitCode # 0 <=> results.errors > 0)

\* C5: both report modes derive the overall status from the final counters by
\* the same precedence, and a run in the other mode on the same files ends
\* with the same counters and the same overall status.
C5_ModesAgree ==
  Done =>
    LET other == main([json |-> ~CONFIG.json]) IN
      /\ outcome = "completed" =>
           Verdict(report.status) =
             IF results.errors > 0 THEN "failed"
             ELSE IF results.warnings > 0 THEN "passed with warnings"
             ELSE "passed"
      /\ other.outcome = outcome
      /\ other.results.passed = results.passed
      /\ other.results.warnings = results.warnings
      /\ other.results.errors = results.errors
      /\ Verdict(other.report.status) = Verdict(report.status)
      /\ other.report.mode # report.mode \/ report.mode = "none"
      /\ <<other.report.passed, other.report.warnings, other.report.errors>>
           = <<report.passed, report.warnings, report.errors>>

\* A JSON run that ended with warnings and no error, after validating a region.
C5_Witness ==
  /\ Done /\ outcome = "completed" /\ CONFIG.json
  /\ results.warnings > 0 /\ results.errors = 0
  /\ report.status = "passed_with_warnings"
  /\ Len(stateStats) > 0

\* The index is valid: a lastUpdated that parses, and a states mapping with
\* every reference code.
ValidIndex ==
  /\ indexFile.kind = "object"
  /\ indexFile.lastUpdated \in {Str(t) : t \in ValidDateTexts}
  /\ indexFile.states.type = "object"
  /\ \A e \in 1..Len(EXPECTED_STATES) :
       \E k \in 1..Len(indexFile.states.keys) :
         indexFile.states.keys[k] = EXPECTED_STATES[e]

\* The document of `code` satisfies the record schema.
StructurallyValid(doc, code) ==
  /\ doc.kind = "object"
  /\ doc.state = Str(<<code>>)
  /\ doc.stateName.type = "string" /\ doc.stateName.val # <<>>
  /\ doc.agencyType \in {Str(<<"SAA">>), Str(<<"OA">>)}
  /\ doc.hasPublicWorksRequirement.type = "boolean"
  /\ doc.lastVerified.type = "string" /\ doc.lastVerified.val # <<>>
  /\ doc.hasPublicWorksRequirement = Bool(TRUE) =>
       /\ doc.requirement.type = "object"
       /\ \A f \in {"requirementType", "ratioDescription", "statute", "statuteUrl"} :
            doc.requirement[f].type = "string" /\ doc.requirement[f].val # <<>>
       /\ Len(doc.requirement.statuteUrl.val) >= 4
       /\ \A k \in 1..4 : doc.requirement.statuteUrl.val[k] = <<"h", "t", "t", "p">>[k]

AllRegionsValid ==
  \A k \in 1..Len(regionFiles) :
    StructurallyValid(regionFiles[k], indexFile.states.keys[k])

\* C6, as stated: a valid index whose regions all have a structurally valid
\* document ends with no error, the status 'passed' and exit status 0.
C6_ValidDataPasses_Original ==
  (Done /\ ValidIndex /\ AllRegionsValid) =>
    /\ results.errors = 0
    /\ Verdict(report.status) = "passed"
    /\ exitCode = 0

\* C6, amended: the same when search-index.json also exists and holds an array.
C6_ValidDataPasses ==
  (Done /\ ValidIndex /\ AllRegionsValid /\ searchIndexFile = "array") =>
    /\ results.errors = 0
    /\ results.warnings = 0
    /\ Verdict(report.status) = "passed"
    /\ exitCode = 0

\* A run over a valid index, valid documents for all its regions and a search
\* index that is an array has ended.
C6_Witness ==
  /\ Done /\ ValidIndex /\ AllRegionsValid /\ searchIndexFile = "array"
  /\ Len(stateStats) = Len(EXPECTED_STATES)
  /\ outcome = "completed"

\* The reference codes that are no key of index.states.
MissingCodes ==
  {EXPECTED_STATES[e] : e \in 1..Len(EXPECTED_STATES)}
    \ {indexFile.states.keys[k] : k \in 1..Len(indexFile.states.keys)}

RefPos(c) == CHOOSE e \in 1..Len(EXPECTED_STATES) : EXPECTED_STATES[e] = c

\* text is "Missing: " followed by exactly the codes of M, in reference-list
\* order, with ", " between them.
ListsMissing(text, M) ==
  /\ Len(text) = 2 * Cardinality(M)
  /\ text[1] = "Missing: "
  /\ \A k \in 1..Len(text) : (k > 1 /\ k % 2 = 1) => text[k] = ", "
  /\ {text[k] : k \in {j \in 1..Len(text) : j % 2 = 0}} = M
  /\ \A j, k \in 1..Len(text) :
       (j % 2 = 0 /\ k % 2 = 0 /\ j < k) => RefPos(text[j]) < RefPos(text[k])

\* C7: when the states mapping lacks a non-empty set M of reference codes,
\* exactly one warning lists exactly M in reference-list order, no other
\* warning comes from the index, the run is not aborted and every key of the
\* mapping is validated exactly once.
C7_MissingCodesWarned ==
  (Done /\ indexFile.kind = "object" /\ indexFile.states.type = "object"
        /\ MissingCodes # {}) =>
    LET keys == indexFile.states.keys
        w == Entries("warning", <<"All expected states present">>)
    IN /\ Cardinality(w) = 1
       /\ \A k \in w : ListsMissing(results.details[k].details, MissingCodes)
       /\ \A k \in OfType(results.details, "warning") \ w :
            \/ results.details[k].check = <<"search-index.json exists">>
            \/ \E j \in 1..Len(keys) : results.details[k].check = <<keys[j]>>
       /\ outcome # "aborted"
       /\ Validated = [k \in 1..Len(keys) |-> <<"validateStateFile", keys[k]>>]

\* This step is one call of validateStateFile.
StateFileStep ==
  /\ pc = "validateStateFile"
  /\ Len(calls') = Len(calls) + 1
  /\ calls'[Len(calls')][1] = "validateStateFile"

\* The file that call reads, and the detail entries it adds.
StepFile == regionFiles[Len(stateStats) + 1]
StepAdded ==
  SubSeq(results'.details, Len(results.details) + 1, Len(results'.details))

ContentIssues(doc, code) ==
  LET inReq == Truthy(doc.hasPublicWorksRequirement) /\ Truthy(doc.requirement)
      url == doc.requirement.statuteUrl
  IN {r \in {"state", "stateName", "agencyType", "hasPublicWorksRequirement",
             "requirementType", "ratioDescription", "statute", "statuteUrl",
             "requirement", "lastVerified"} :
        CASE r = "state" -> doc.state # Str(<<code>>)
          [] r = "agencyType" -> doc.agencyType \notin {Str(<<"SAA">>), Str(<<"OA">>)}
          [] r = "hasPublicWorksRequirement" ->
               doc.hasPublicWorksRequirement.type # "boolean"
          [] r \in {"requirementType", "ratioDescription", "statute"} ->
               inReq /\ ~Truthy(doc.requirement[r])
          [] r = "statuteUrl" ->
               inReq /\ ~(url.type = "string" /\ Len(url.val) >= 4
                          /\ <<url.val[1], url.val[2], url.val[3], url.val[4]>>
                               = <<"h", "t", "t", "p">>)
          [] r = "requirement" ->
               Truthy(doc.hasPublicWorksRequirement) /\ ~Truthy(doc.requirement)
          [] OTHER -> ~Truthy(doc[r])}

\* C9: for a parseable region document with n content issues,
\* validateStateFile records min(n, 5) warnings, one more that states n - 5
\* when n > 5, and no pass; one pass and no warning when n = 0; and it
\* returns n as the issue count.
C9_IssueReporting ==
  [][(StateFileStep /\ StepFile.kind \notin {"missing", "unparseable"}) =>
       LET n == Cardinality(ContentIssues(StepFile, calls'[Len(calls')][2]))
           shown == IF n < MaxIssuesShown THEN n ELSE MaxIssuesShown
           more == IF n > MaxIssuesShown THEN 1 ELSE 0
       IN /\ results'.warnings - results.warnings = shown + more
          /\ Len(StepAdded) = shown + more
          /\ \A k \in 1..Len(StepAdded) :
               /\ StepAdded[k].type = "warning"
               /\ StepAdded[k].check = <<calls'[Len(calls')][2]>>
          /\ more = 1 =>
               StepAdded[Len(StepAdded)].details
                 = <<"...and ", NumText(n - MaxIssuesShown), " more issues">>
          /\ results'.passed - results.passed = (IF n = 0 THEN 1 ELSE 0)
          /\ Len(stateStats') = Len(stateStats) + 1
          /\ stateStats'[Len(stateStats')].stats.kind = "summary"
          /\ stateStats'[Len(stateStats')].stats.issues = n]_vars

\* The detail log holds one entry per warning and per error counted.
DetailsMatchCounters ==
  /\ Len(results.details) = results.warnings + results.errors
  /\ Cardinality(OfType(results.details, "warning")) = results.warnings
  /\ Cardinality(OfType(results.details, "error")) = results.errors

\* C10: at every point of a run the detail log holds exactly one entry per
\* warning and per error counted (a pass adds none), and a step never lowers
\* a counter nor removes, changes or reorders an entry: it only appends.
C10_DetailLog ==
  /\ []DetailsMatchCounters
  /\ [][/\ results'.passed >= results.passed
        /\ results'.warnings >= results.warnings
        /\ results'.errors >= results.errors
        /\ Len(results'.details) >= Len(results.details)
        /\ SubSeq(results'.details, 1, Len(results.details)) = results.details
        /\ Len(results'.details) - Len(results.details)
             = (results'.warnings - results.warnings)
               + (results'.errors - results.errors)]_vars

\* A run ended with passes, an error and then warnings in its log.
C10_Witness ==
  /\ Done
  /\ results.passed > 0 /\ results.errors > 0 /\ results.warnings > 1
  /\ results.details[1].type = "error"
  /\ results.details[Len(results.details)].type = "warning"

====
